---------------------------- MODULE Spec2Model ----------------------------
(***************************************************************************)
(* Model of the Splunk data source (src/src/datasource.ts): the guardrail  *)
(* evaluator, the variable interpolator, the job controller, the result    *)
(* paginator, the row mapper and the two entry points of the orchestrator, *)
(* DataSource.query (batch query) and DataSource.metricFindQuery           *)
(* (variable-list query).                                                  *)
(*                                                                         *)
(* A text is a sequence of one-character strings.  An optional number of   *)
(* the configuration is <<>> when unset and <<n>> when set.                *)
(***************************************************************************)
EXTENDS Integers, Sequences, FiniteSets, TLC

\* ------------------------------------------------------------------ bounds
MaxTargets == 2       \* targets of one batch query
MaxPageLen == 3       \* records of a page that is not a full page
MaxResults == 80      \* records of one job's result set
MaxVarRows == 2       \* records of the single page of a variable-list query
MaxQueryLen == 3      \* characters of a query given to the guardrail evaluator
MaxValueLen == 2      \* characters of a value bound to a variable
MaxArrayLen == 2      \* values of a multi-valued variable
MaxRenders == 2       \* times the host gives an editor new props

\* ------------------------------------------------------- program constants
DefaultMaxRangeSeconds == 86400
DefaultPageSize == 200
MinPageSize == 1
MaxPageSize == 5000
DefaultMaxRows == 2000
DefaultMaxPolls == 30
MinPolls == 1
VariablePageSize == 500

Missing == "<undefined>"          \* an absent (undefined) field of a payload
EmptyQueryMsg == "Query is empty."
RiskyQueryMsg == "Query includes a risky Splunk command and is blocked by guardrails."
CreateFailedMsg == "Failed to create Splunk search job"
PollTimeoutMsg == "Splunk job did not complete within polling limits"
QueryFailedMsg == "Query failed"
TypeErrorMsg == "TypeError: cannot read properties of undefined"
SyntaxError == "SyntaxError: invalid regular expression"

Max(a, b) == IF a >= b THEN a ELSE b
Min(a, b) == IF a <= b THEN a ELSE b
\* v ?? d on an optional number
OrDefault(v, d) == IF v = <<>> THEN d ELSE v[1]

\* ------------------------------------------------------------------- texts
IsSpace(c) == c \in {" ", "\t"}
WordChars ==
  {"a", "b", "c", "d", "e", "h", "i", "j", "k", "l", "m", "n", "o", "p", "r", "s", "t", "u",
   "D", "_"}
IsWordChar(c) == c \in WordChars
\* the case folding of the 'i' flag
lower(c) == IF c = "D" THEN "d" ELSE c

RECURSIVE TrimLeft(_)
TrimLeft(s) == IF s # <<>> /\ IsSpace(Head(s)) THEN TrimLeft(Tail(s)) ELSE s
RECURSIVE TrimRight(_)
TrimRight(s) ==
  IF s # <<>> /\ IsSpace(s[Len(s)]) THEN TrimRight(SubSeq(s, 1, Len(s) - 1)) ELSE s
trim(s) == TrimRight(TrimLeft(s))

RECURSIVE MapTrim(_)
MapTrim(lines) == IF lines = <<>> THEN <<>> ELSE <<trim(Head(lines))>> \o MapTrim(Tail(lines))
NonEmpty(s) == s # <<>>

\* ---------------------------------------------------------------- guardrails
\* A deny-list fragment is a literal word, or holds the unbalanced "(" that
\* makes the RegExp constructor throw.
Malformed(part) == \E k \in 1..Len(part) : part[k] = "("

\* \b at the gap before position p of t
WordBoundary(t, p) ==
  LET before == p > 1 /\ IsWordChar(t[p - 1])
      after == p <= Len(t) /\ IsWordChar(t[p])
  IN  before # after

MatchesAt(t, f, p) ==
  /\ p + Len(f) - 1 <= Len(t)
  /\ \A k \in 1..Len(f) : lower(t[p + k - 1]) = lower(f[k])
  /\ WordBoundary(t, p)
  /\ WordBoundary(t, p + Len(f))

\* re.test(text) for re = /\b(p1|p2|...)\b/i
RegexTest(parts, t) ==
  \E i \in 1..Len(parts) : \E p \in 1..Len(t) : MatchesAt(t, parts[i], p)

\* bannedCommands is the configured text split at its line breaks.
compileBannedRegex(opts) ==
  LET parts == SelectSeq(MapTrim(opts.bannedCommands), NonEmpty)
  IN  IF parts = <<>> THEN [kind |-> "null", parts |-> <<>>]
      ELSE IF \E i \in 1..Len(parts) : Malformed(parts[i])
           THEN [kind |-> "throw", parts |-> parts]
           ELSE [kind |-> "regex", parts |-> parts]

\* isQueryDangerous with the override tested before the empty query: a
\* faulty variant
isQueryDangerousAllowFirst(q, opts) ==
  LET text == trim(q)
      re == compileBannedRegex(opts)
  IN  IF opts.allowDangerousCommands THEN Missing
      ELSE IF Len(text) = 0 THEN EmptyQueryMsg
      ELSE IF re.kind = "throw" THEN SyntaxError
      ELSE IF re.kind = "regex" /\ RegexTest(re.parts, text) THEN RiskyQueryMsg
      ELSE Missing

\* The block reason, Missing (null: allowed), or SyntaxError when the
\* deny-list does not compile (the exception leaves isQueryDangerous).
isQueryDangerous(q, opts) ==
  LET text == trim(q)
      re == compileBannedRegex(opts)
  IN  IF Len(text) = 0 THEN EmptyQueryMsg
      ELSE IF opts.allowDangerousCommands THEN Missing
      ELSE IF re.kind = "throw" THEN SyntaxError
      ELSE IF re.kind = "regex" /\ RegexTest(re.parts, text) THEN RiskyQueryMsg
      ELSE Missing

\* ------------------------------------------------------------- interpolation
\* escapeSplunkValue with only the double quote in its character class: a
\* faulty variant
RECURSIVE escapeSplunkValueQuotesOnly(_)
escapeSplunkValueQuotesOnly(v) ==
  IF v = <<>> THEN <<>>
  ELSE (IF Head(v) = "\"" THEN <<"\\", Head(v)>> ELSE <<Head(v)>>)
       \o escapeSplunkValueQuotesOnly(Tail(v))

RECURSIVE escapeSplunkValue(_)
escapeSplunkValue(v) ==
  IF v = <<>> THEN <<>>
  ELSE (IF Head(v) \in {"\"", "\\"} THEN <<"\\", Head(v)>> ELSE <<Head(v)>>)
       \o escapeSplunkValue(Tail(v))

Quoted(v) == <<"\"">> \o escapeSplunkValue(v) \o <<"\"">>
RECURSIVE JoinOr(_)
JoinOr(parts) ==
  IF Len(parts) = 1 THEN parts[1]
  ELSE parts[1] \o <<" ", "O", "R", " ">> \o JoinOr(Tail(parts))
RECURSIVE MapQuoted(_)
MapQuoted(vs) == IF vs = <<>> THEN <<>> ELSE <<Quoted(Head(vs))>> \o MapQuoted(Tail(vs))

\* A binding is null, a single value or an array of values.
NullValue == [tag |-> "null", v |-> <<>>, vs |-> <<>>]
Single(v) == [tag |-> "single", v |-> v, vs |-> <<>>]
Array(vs) == [tag |-> "array", v |-> <<>>, vs |-> vs]

\* formatter with the parentheses around every array: a faulty variant
formatterAlwaysParens(value) ==
  IF value.tag = "null" THEN <<>>
  ELSE IF value.tag = "array"
       THEN LET parts == MapQuoted(value.vs)
            IN  IF Len(parts) >= 1 THEN <<"(">> \o JoinOr(parts) \o <<")">> ELSE <<>>
       ELSE escapeSplunkValue(value.v)

formatter(value) ==
  IF value.tag = "null" THEN <<>>
  ELSE IF value.tag = "array"
       THEN LET parts == MapQuoted(value.vs)
            IN  IF Len(parts) > 1 THEN <<"(">> \o JoinOr(parts) \o <<")">>
                ELSE IF Len(parts) = 1 THEN parts[1] ELSE <<>>
       ELSE escapeSplunkValue(value.v)

\* ts.replace(text, scopedVars, formatter): every reference "$x" of the
\* template is replaced by the formatted binding of x.
VarRef == "$x"
RECURSIVE interpolateSPL(_, _)
interpolateSPL(text, scopedVars) ==
  IF text = <<>> THEN <<>>
  ELSE (IF Head(text) = VarRef THEN formatter(scopedVars) ELSE <<Head(text)>>)
       \o interpolateSPL(Tail(text), scopedVars)


\* ---------------------------------------------------------------- row mapper
\* The record at position k of a job's result set.  null and undefined
\* are both Missing: the ?? chains of the mapper treat them alike.
NoRecord ==
  [_time |-> Missing, host |-> Missing, sourceHost |-> Missing, hosts |-> Missing,
   _raw |-> Missing, message |-> Missing, _msg |-> Missing]
ResultShapes ==
  << [NoRecord EXCEPT !._time = "2024-01-01T00:00:00Z", !.host = "h1",
                      !._raw = "raw1", !.message = "msg1"],
     [NoRecord EXCEPT !.sourceHost = "h2", !.message = "msg2", !._msg = "m2"],
     [NoRecord EXCEPT !._time = "not a date", !.hosts = "h3", !._msg = "m3"],
     NoRecord >>
ResultAt(k) == ResultShapes[((k - 1) % Len(ResultShapes)) + 1]

ParsableTimes == {"2024-01-01T00:00:00Z"}
\* a ?? b ?? c ?? ''
Coalesce(a, b, c) ==
  IF a # Missing THEN a ELSE IF b # Missing THEN b ELSE IF c # Missing THEN c ELSE ""
\* Date.parse(r._time) || Date.now()
RowTime(r) == IF r._time \in ParsableTimes THEN r._time ELSE "now"
RowMessage(r) == Coalesce(r._raw, r.message, r._msg)
\* the host chain with its last two fields in the other order: a faulty
\* variant
RowHostPluralFirst(r) == Coalesce(r.host, r.hosts, r.sourceHost)
RowHost(r) == Coalesce(r.host, r.sourceHost, r.hosts)
MapRow(r) == [time |-> RowTime(r), host |-> RowHost(r), message |-> RowMessage(r)]

\* ------------------------------------------------------------ configuration
\* jsonData as the query paths read it.
BaseConfig ==
  [safeMode |-> TRUE, maxRangeSeconds |-> <<>>, maxRows |-> <<>>, pageSize |-> <<>>,
   maxPolls |-> <<1>>, bannedCommands |-> << <<"d">> >>, allowDangerousCommands |-> FALSE]

\* no deny-list, a deny-list of one word, a deny-list with a fragment that
\* is no regular expression
DenyLists == { <<>>, << <<"d">> >>, << <<"b">>, <<" ", "(">> >> }
RangeConfigs ==
  {[BaseConfig EXCEPT !.safeMode = s, !.maxRangeSeconds = m] :
     s \in BOOLEAN, m \in {<<>>, <<80000>>}}
GuardConfigs ==
  {[BaseConfig EXCEPT !.bannedCommands = b, !.allowDangerousCommands = a] :
     b \in DenyLists, a \in BOOLEAN}
\* a row cap of 50 with a page size of 20
CapExample == [BaseConfig EXCEPT !.pageSize = <<20>>, !.maxRows = <<50>>]
\* a page size of 2 under a row cap of 3
PagedBatchConfig == [BaseConfig EXCEPT !.pageSize = <<2>>, !.maxRows = <<3>>]
PageConfigs ==
  {[BaseConfig EXCEPT !.pageSize = p, !.maxRows = m] :
     p \in {<<>>, <<-1>>, <<0>>, <<2>>, <<6000>>}, m \in {<<>>, <<-1>>, <<0>>, <<1>>, <<3>>}}
  \cup {CapExample}
PollConfigs ==
  {[BaseConfig EXCEPT !.maxPolls = p] : p \in {<<>>, <<0>>, <<1>>, <<2>>, <<3>>}}
Configs == RangeConfigs \cup GuardConfigs \cup PageConfigs \cup PollConfigs

\* The values the query paths compute from jsonData.
\* pageSize without its limits: a faulty variant
EffPageSizeUnclamped(opts) == OrDefault(opts.pageSize, DefaultPageSize)
EffPageSize(opts) == Max(MinPageSize, Min(OrDefault(opts.pageSize, DefaultPageSize), MaxPageSize))
EffMaxRows(opts) == Max(0, OrDefault(opts.maxRows, DefaultMaxRows))
\* maxPolls without its lower limit: a faulty variant
EffMaxPollsUnclamped(opts) == OrDefault(opts.maxPolls, DefaultMaxPolls)
\* the bound of a loop that tests i <= maxPolls: a faulty variant
EffMaxPollsInclusive(opts) == Max(MinPolls, OrDefault(opts.maxPolls, DefaultMaxPolls)) + 1
EffMaxPolls(opts) == Max(MinPolls, OrDefault(opts.maxPolls, DefaultMaxPolls))
EffMaxRange(opts) == OrDefault(opts.maxRangeSeconds, DefaultMaxRangeSeconds)

\* ------------------------------------------------------------------ requests
RefIds == <<"A", "B", "C", "D">>
Bindings == { NullValue, Single(<<"D">>) }
Spans == {80000000, 80000001, 90000000}

Hidden == [hide |-> TRUE, queryText |-> <<"a">>]
Blank == [hide |-> FALSE, queryText |-> <<" ">>]
Plain == [hide |-> FALSE, queryText |-> <<"a">>]
WithVar == [hide |-> FALSE, queryText |-> <<"a", " ", VarRef>>]
TargetKinds == {Hidden, Blank, Plain, WithVar}

TargetsOfLen(n, kinds) ==
  {[i \in 1..n |-> [refId |-> RefIds[i], hide |-> k[i].hide, queryText |-> k[i].queryText]] :
     k \in [1..n -> kinds]}
Batches(kinds) == UNION {TargetsOfLen(n, kinds) : n \in 0..MaxTargets}
NoRequest == [rangeMs |-> 0, targets |-> <<>>, scopedVars |-> NullValue]

\* The batches checked: every mix of target kinds and bindings under the
\* guardrail configurations, every span under the range configurations,
\* batches of plain targets under the polling configurations and under
\* one of the paging configurations, one plain target under the others.
GuardRequests ==
  {[rangeMs |-> 80000000, targets |-> ts, scopedVars |-> b] :
     ts \in Batches(TargetKinds), b \in Bindings}
RangeRequests ==
  {[rangeMs |-> ms, targets |-> ts, scopedVars |-> NullValue] :
     ms \in Spans, ts \in Batches({Plain})}
PlainRequests ==
  {[rangeMs |-> 80000000, targets |-> ts, scopedVars |-> NullValue] : ts \in Batches({Plain})}
PageRequests ==
  {[rangeMs |-> 80000000, targets |-> ts, scopedVars |-> NullValue] :
     ts \in TargetsOfLen(1, {Plain})}
RequestsFor(opts) ==
  (IF opts \in GuardConfigs THEN GuardRequests ELSE {})
  \cup (IF opts \in RangeConfigs THEN RangeRequests ELSE {})
  \cup (IF opts \in PollConfigs \cup {PagedBatchConfig} THEN PlainRequests ELSE {})
  \cup (IF opts \in PageConfigs THEN PageRequests ELSE {})

\* Math.ceil(ms / 1000)
CeilSeconds(ms) == IF ms >= 0 THEN (ms + 999) \div 1000 ELSE 0 - ((0 - ms) \div 1000)

\* ---------------------------------------------------------------- the remote
\* One HTTP call through the proxy and what comes back for it.
NoCall == [kind |-> "none", sid |-> 0, count |-> 0, offset |-> 0]
CreateCall == [kind |-> "create", sid |-> 0, count |-> 0, offset |-> 0]
\* a status call that carries the handle of the batch's first job: a
\* faulty variant
StatusCallFirstJob(s) == [kind |-> "status", sid |-> 1, count |-> 0, offset |-> 0]
StatusCall(s) == [kind |-> "status", sid |-> s, count |-> 0, offset |-> 0]
ResultsCall(s, c, o) == [kind |-> "results", sid |-> s, count |-> c, offset |-> o]

NoResponse ==
  [tag |-> "none", sid |-> 0, entry |-> FALSE, isDone |-> Missing,
   dispatchState |-> Missing, results |-> FALSE, n |-> 0, rows |-> <<>>,
   fields |-> <<>>, message |-> Missing]
\* the call rejects, with or without a message on the error
Rejections == {[NoResponse EXCEPT !.tag = "reject", !.message = m] : m \in {"Network Error", Missing}}
\* the call resolves with nothing
Undefined == [NoResponse EXCEPT !.tag = "undefined"]
DispatchStates == {"DONE", "PAUSED", "FINALIZING", "RUNNING", "QUEUED", Missing}
StatusPayloads ==
  {[NoResponse EXCEPT !.tag = "ok", !.entry = TRUE, !.isDone = d, !.dispatchState = s] :
     d \in {"true", "false", Missing}, s \in DispatchStates}
  \cup {[NoResponse EXCEPT !.tag = "ok"]}

\* what a create, status or results call may come back with
CreateResponses ==
  {[NoResponse EXCEPT !.tag = "ok", !.sid = h] : h \in {0, 1}} \cup {Undefined} \cup Rejections
StatusResponses == StatusPayloads \cup {Undefined} \cup Rejections
\* The lengths of the page the remote may return for count records at
\* offset off: a full page or up to MaxPageLen records, and no record
\* past the end of the result set.
PageLens(count, off) ==
  {k \in (0..MaxPageLen) \cup {count} : k >= 0 /\ off + k <= MaxResults}
ResultsResponses(lens) ==
  {[NoResponse EXCEPT !.tag = "ok", !.results = TRUE, !.n = k] : k \in lens}
  \cup {[NoResponse EXCEPT !.tag = "ok"]} \cup {Undefined} \cup Rejections

\* err?.message ?? 'Query failed' for the error a failed call raises
ErrorMessage(r) == IF r.message = Missing THEN QueryFailedMsg ELSE r.message

\* -------------------------------------------------------------------- state
VARIABLES
  jsonData,     \* the data source's configuration
  entry,        \* the running entry point: "none", "query", "metricFindQuery"
  req,          \* the batch request being served
  pc,           \* position of the running entry point
  idx,          \* index of the target the loop of query is at
  frames,       \* frames collected by query so far
  table,        \* rows of the current target's table
  sid,          \* job handle of the current target (0: none)
  polls,        \* i of the loop of waitForJob
  offset,       \* offset of the pagination loop
  totalAdded,   \* totalAdded of the pagination loop
  pending,      \* the HTTP call in flight
  resp,         \* what the call in flight came back with
  jobs,         \* number of job handles the remote has given out
  calls,        \* the create, status and results calls issued for the current target
  result,       \* the list metricFindQuery returned
  cancelled,    \* the host has abandoned the promise query returned
  editor        \* a query editor: its state, its props, its debounce timers

vars ==
  <<jsonData, entry, req, pc, idx, frames, table, sid, polls, offset, totalAdded,
    pending, resp, jobs, calls, result, cancelled, editor>>

locals == <<table, sid, polls, offset, totalAdded>>

NoCalls == [create |-> 0, status |-> 0, results |-> 0]

\* No entry point of the data source is running.
AtRest ==
  /\ entry = "none"
  /\ req = NoRequest
  /\ pc = "idle"
  /\ idx = 0
  /\ frames = <<>>
  /\ table = <<>>
  /\ sid = 0
  /\ polls = 0
  /\ offset = 0
  /\ totalAdded = 0
  /\ pending = NoCall
  /\ resp = NoResponse
  /\ jobs = 0
  /\ calls = NoCalls
  /\ result = <<>>
  /\ cancelled = FALSE

\* no editor is mounted
NoEditor ==
  [kind |-> "none", text |-> <<>>, validationMsg |-> Missing, isDangerous |-> FALSE,
   props |-> 0, instance |-> 0, timers |-> <<>>, delivered |-> <<>>, run |-> <<>>,
   cleared |-> FALSE]

\* No entry point is running.
Idle ==
  /\ editor = NoEditor
  /\ AtRest

Init == jsonData \in Configs /\ Idle

\* -------------------------------------------------------------------- frames
InfoFrame(rangeSec, maxRangeSec) ==
  [refId |-> "guardrails", fields |-> <<"time", "message">>,
   rows |-> << [time |-> "now", text |-> "Time range exceeds the configured cap",
                rangeSec |-> rangeSec, maxRangeSec |-> maxRangeSec] >>]
WarnFrame(refId, reason) ==
  [refId |-> refId, fields |-> <<"time", "warning">>,
   rows |-> << [time |-> "now", text |-> reason] >>]
ErrorFrame(refId, message) ==
  [refId |-> refId, fields |-> <<"time", "error">>,
   rows |-> << [time |-> "now", text |-> message] >>]
TableFrame(refId, rows) ==
  [refId |-> refId, fields |-> <<"time", "host", "message">>, rows |-> rows]

Target == req.targets[idx]

\* a call is issued for the current target
Issue(call) ==
  /\ pending' = call
  /\ resp' = NoResponse
  /\ calls' = [calls EXCEPT ![call.kind] = @ + 1]

ResetLocals ==
  /\ table' = <<>>
  /\ sid' = 0
  /\ polls' = 0
  /\ offset' = 0
  /\ totalAdded' = 0
  /\ pending' = NoCall
  /\ resp' = NoResponse
  /\ calls' = NoCalls

\* the loop of query moves on to the next target
Continue == pc' = "loop" /\ idx' = idx + 1

\* frames.push(table) at the end of the loop body
PushTable(rows) ==
  /\ frames' = Append(frames, TableFrame(Target.refId, rows))
  /\ Continue
  /\ ResetLocals
  /\ UNCHANGED <<jsonData, cancelled, editor, entry, req, jobs, result>>

\* Faulty variants of the catch clause, which the properties below must
\* tell from it: one that drops the error frame, one that ends the batch.
CatchQueryNoFrame(message) ==
  /\ Continue
  /\ ResetLocals
  /\ UNCHANGED <<jsonData, cancelled, editor, entry, req, frames, jobs, result>>
CatchQueryAbort(message) ==
  /\ frames' = Append(frames, ErrorFrame(Target.refId, message))
  /\ pc' = "returned"
  /\ idx' = Len(req.targets) + 1
  /\ ResetLocals
  /\ UNCHANGED <<jsonData, cancelled, editor, entry, req, jobs, result>>

\* A faulty variant of the catch clause that repeats, once, a call that
\* was rejected.
CatchQueryRetry(message) ==
  IF resp.tag = "reject" /\ calls[pending.kind] < 2
  THEN /\ Issue(pending)
       /\ UNCHANGED <<jsonData, cancelled, editor, entry, req, pc, idx, frames, locals, jobs, result>>
  ELSE /\ frames' = Append(frames, ErrorFrame(Target.refId, message))
       /\ Continue
       /\ ResetLocals
       /\ UNCHANGED <<jsonData, cancelled, editor, entry, req, jobs, result>>

\* A faulty variant of the catch clause that pushes the rows collected
\* before the failure as well.
CatchQueryKeepsPartial(message) ==
  /\ frames' = (IF table = <<>> THEN frames ELSE Append(frames, TableFrame(Target.refId, table)))
                  \o <<ErrorFrame(Target.refId, message)>>
  /\ Continue
  /\ ResetLocals
  /\ UNCHANGED <<jsonData, cancelled, editor, entry, req, jobs, result>>

\* The catch clause of query: one error frame, then the next target.
CatchQuery(message) ==
  /\ frames' = Append(frames, ErrorFrame(Target.refId, message))
  /\ Continue
  /\ ResetLocals
  /\ UNCHANGED <<jsonData, cancelled, editor, entry, req, jobs, result>>

\* The catch clause of metricFindQuery: the empty list.
CatchMetricFind ==
  /\ result' = <<>>
  /\ pc' = "returned"
  /\ ResetLocals
  /\ UNCHANGED <<jsonData, cancelled, editor, entry, req, idx, frames, jobs>>

Catch(message) == IF entry = "query" THEN CatchQuery(message) ELSE CatchMetricFind

\* ----------------------------------------------------------- DataSource.query
\* The time range cap: safe mode is on and the span, in whole seconds
\* rounded up, is above maxRangeSeconds.  RangeExceededAtCap is a faulty
\* variant that also fires at the cap itself.
RangeExceededAtCap(opts, rangeMs) ==
  opts.safeMode /\ CeilSeconds(rangeMs) >= EffMaxRange(opts)
RangeExceeded(opts, rangeMs) ==
  opts.safeMode /\ CeilSeconds(rangeMs) > EffMaxRange(opts)

\* The call of query up to the loop over the targets: the time range cap.
Query(r) ==
  /\ pc = "idle"
  /\ r \in RequestsFor(jsonData)
  /\ entry' = "query"
  /\ req' = r
  /\ LET maxRangeSec == EffMaxRange(jsonData)
         rangeSec == CeilSeconds(r.rangeMs)
     IN  IF RangeExceeded(jsonData, r.rangeMs)
         THEN /\ frames' = <<InfoFrame(rangeSec, maxRangeSec)>>
              /\ pc' = "returned"
              /\ idx' = 0
         ELSE /\ frames' = <<>>
              /\ pc' = "loop"
              /\ idx' = 1
  /\ UNCHANGED <<jsonData, cancelled, editor, locals, pending, resp, jobs, calls, result>>

\* The loop is past the last target: return { data: frames }.
ReturnFrames ==
  /\ entry = "query" /\ pc = "loop" /\ idx > Len(req.targets)
  /\ pc' = "returned"
  /\ UNCHANGED <<jsonData, cancelled, editor, entry, req, idx, frames, locals, pending, resp, jobs, calls, result>>

\* if (target.hide) continue
SkipHidden ==
  /\ entry = "query" /\ pc = "loop" /\ idx <= Len(req.targets)
  /\ Target.hide
  /\ Continue
  /\ UNCHANGED <<jsonData, cancelled, editor, entry, req, frames, locals, pending, resp, jobs, calls, result>>

QueryText == interpolateSPL(Target.queryText, req.scopedVars)

\* StartTarget without the continue after the warning frame: a faulty
\* variant that goes on to create the job of a blocked query.
StartTargetNoContinue ==
  /\ entry = "query" /\ pc = "loop" /\ idx <= Len(req.targets)
  /\ ~Target.hide
  /\ LET validation == isQueryDangerous(QueryText, jsonData)
     IN  IF validation = SyntaxError
         THEN /\ pc' = "thrown"
              /\ UNCHANGED <<idx, frames, locals, pending, resp, calls>>
         ELSE /\ frames' = IF validation # Missing
                           THEN Append(frames, WarnFrame(Target.refId, validation))
                           ELSE frames
              /\ pc' = "create"
              /\ Issue(CreateCall)
              /\ UNCHANGED <<idx, locals>>
  /\ UNCHANGED <<jsonData, cancelled, editor, entry, req, jobs, result>>

\* The head of the loop body for a target that is not hidden: interpolation
\* and the guardrail gate, then the creation of the search job.
StartTarget ==
  /\ entry = "query" /\ pc = "loop" /\ idx <= Len(req.targets)
  /\ ~Target.hide
  /\ LET validation == isQueryDangerous(QueryText, jsonData)
     IN  IF validation = SyntaxError
         THEN \* no try block is open: the exception leaves query
              /\ pc' = "thrown"
              /\ UNCHANGED <<idx, frames, locals, pending, resp, calls>>
         ELSE IF validation # Missing
         THEN /\ frames' = Append(frames, WarnFrame(Target.refId, validation))
              /\ Continue
              /\ UNCHANGED <<locals, pending, resp, calls>>
         ELSE /\ pc' = "create"
              /\ Issue(CreateCall)
              /\ UNCHANGED <<idx, frames, locals>>
  /\ UNCHANGED <<jsonData, cancelled, editor, entry, req, jobs, result>>

\* ------------------------------------------------------------------ transport
\* The call in flight comes back.  The remote gives out a fresh handle for
\* each job.
RemoteResponds ==
  /\ pending.kind # "none" /\ resp.tag = "none"
  /\ \E r \in CASE pending.kind = "create" -> CreateResponses
                [] pending.kind = "status" -> StatusResponses
                [] pending.kind = "results" ->
                     ResultsResponses(PageLens(pending.count, pending.offset)) :
       /\ resp' = IF pending.kind = "create" /\ r.sid # 0
                  THEN [r EXCEPT !.sid = jobs + 1] ELSE r
       /\ jobs' = IF pending.kind = "create" /\ r.sid # 0 THEN jobs + 1 ELSE jobs
  /\ UNCHANGED <<jsonData, cancelled, editor, entry, req, pc, idx, frames, locals, pending, calls, result>>

\* ------------------------------------------------------------ job controller
\* isJobDone without the PAUSED state: a faulty variant
isJobDoneNoPaused(r) ==
  LET done == IF r.entry THEN r.isDone ELSE Missing
      state == IF r.entry THEN r.dispatchState ELSE Missing
  IN  done = "true" \/ state = "DONE" \/ state = "FINALIZING"
\* isJobDone true for every payload: a faulty variant
isJobDoneAnyPayload(r) == TRUE
isJobDone(r) ==
  LET done == IF r.entry THEN r.isDone ELSE Missing
      state == IF r.entry THEN r.dispatchState ELSE Missing
  IN  done = "true" \/ state = "DONE" \/ state = "PAUSED" \/ state = "FINALIZING"

\* createSearchJob returns or throws; on a handle, waitForJob enters its
\* loop (i = 0) and makes the first status check.
JobCreated ==
  /\ pc = "create" /\ resp.tag # "none"
  /\ IF resp.tag = "reject" THEN Catch(ErrorMessage(resp))
     ELSE IF resp.tag = "undefined" \/ resp.sid = 0 THEN Catch(CreateFailedMsg)
     ELSE IF ~(0 < EffMaxPolls(jsonData)) THEN Catch(PollTimeoutMsg)
     ELSE /\ sid' = resp.sid
          /\ polls' = 0
          /\ pc' = "poll"
          /\ Issue(StatusCall(resp.sid))
          /\ UNCHANGED <<jsonData, cancelled, editor, entry, req, idx, frames, table, offset, totalAdded,
                         jobs, result>>

\* The first page request after waitForJob returned.
FirstPage ==
  IF entry = "query"
  THEN ResultsCall(sid, EffPageSize(jsonData), 0)
  ELSE ResultsCall(sid, VariablePageSize, 0)

\* One status check of waitForJob came back: isJobDone returns or throws.
StatusChecked ==
  /\ pc = "poll" /\ resp.tag # "none"
  /\ IF resp.tag = "reject" THEN Catch(ErrorMessage(resp))
     ELSE IF resp.tag = "undefined" THEN Catch(TypeErrorMsg)
     ELSE IF isJobDone(resp)
     THEN /\ pc' = "fetch"
          /\ offset' = 0
          /\ totalAdded' = 0
          /\ Issue(FirstPage)
          /\ UNCHANGED <<jsonData, cancelled, editor, entry, req, idx, frames, table, sid, polls, jobs, result>>
     ELSE /\ pc' = "sleep"
          /\ pending' = NoCall
          /\ resp' = NoResponse
          /\ UNCHANGED <<jsonData, cancelled, editor, entry, req, idx, frames, locals, jobs, calls, result>>

\* sleep(pollMs) is over: i++, then the next status check or the timeout.
SleepDone ==
  /\ pc = "sleep"
  /\ IF polls + 1 < EffMaxPolls(jsonData)
     THEN /\ polls' = polls + 1
          /\ pc' = "poll"
          /\ Issue(StatusCall(sid))
          /\ UNCHANGED <<jsonData, cancelled, editor, entry, req, idx, frames, table, sid, offset, totalAdded,
                         jobs, result>>
     ELSE Catch(PollTimeoutMsg)

\* ------------------------------------------------------------ result paginator
\* maxRows > 0 && totalAdded >= maxRows; CapPassed is a faulty variant
\* that stops only above the cap, CapReachedAtZero one that takes a cap
\* of 0 for a cap.
CapPassed(maxRows, total) == maxRows > 0 /\ total > maxRows
CapReachedAtZero(maxRows, total) == total >= maxRows
CapReached(maxRows, total) == maxRows > 0 /\ total >= maxRows

\* rows.length < pageSize; ShortPageNever is a faulty variant that goes
\* on after a short page.
ShortPageNever(n, pageSize) == FALSE
ShortPage(n, pageSize) == n < pageSize

PageRows(off, n) == [k \in 1..n |-> MapRow(ResultAt(off + k))]

\* PageAdded with the offset moved on by the page size, not by the number
\* of records received: a faulty variant
PageAddedByPageSize(n) ==
  LET pageSize == EffPageSize(jsonData)
      maxRows == EffMaxRows(jsonData)
      added == table \o PageRows(offset, n)
  IN  IF n = 0 THEN PushTable(table)
      ELSE IF CapReached(maxRows, totalAdded + n) THEN PushTable(added)
      ELSE IF ShortPage(n, pageSize) THEN PushTable(added)
      ELSE /\ table' = added
           /\ totalAdded' = totalAdded + n
           /\ offset' = offset + pageSize
           /\ Issue(ResultsCall(sid, pageSize, offset + pageSize))
           /\ UNCHANGED <<jsonData, cancelled, editor, entry, req, pc, idx, frames, sid, polls,
                          jobs, result>>

\* One pass of the pagination loop of query on a page of n records.
PageAdded(n) ==
  LET pageSize == EffPageSize(jsonData)
      maxRows == EffMaxRows(jsonData)
      added == table \o PageRows(offset, n)
  IN  IF n = 0 THEN PushTable(table)
      ELSE IF CapReached(maxRows, totalAdded + n) THEN PushTable(added)
      ELSE IF ShortPage(n, pageSize) THEN PushTable(added)
      ELSE /\ table' = added
           /\ totalAdded' = totalAdded + n
           /\ offset' = offset + n
           /\ Issue(ResultsCall(sid, pageSize, offset + n))
           /\ UNCHANGED <<jsonData, cancelled, editor, entry, req, pc, idx, frames, sid, polls,
                          jobs, result>>

\* PageFetched without the ?? [] on res.results: a faulty variant that
\* fails on a payload with no page
PageFetchedNoDefault ==
  /\ entry = "query" /\ pc = "fetch" /\ resp.tag # "none"
  /\ IF resp.tag = "reject" THEN Catch(ErrorMessage(resp))
     ELSE IF resp.tag = "undefined" \/ ~resp.results THEN Catch(TypeErrorMsg)
     ELSE PageAdded(resp.n)

\* One page of the pagination loop of query came back.
PageFetched ==
  /\ entry = "query" /\ pc = "fetch" /\ resp.tag # "none"
  /\ IF resp.tag = "reject" THEN Catch(ErrorMessage(resp))
     ELSE IF resp.tag = "undefined" THEN Catch(TypeErrorMsg)
     ELSE PageAdded(IF resp.results THEN resp.n ELSE 0)

\* ------------------------------------------------- DataSource.metricFindQuery
\* A record of a variable query's page: its keys in order, each with a
\* value (Missing: null).
VarValues == {Missing, "", "a", "b"}
VarRecords ==
  {<<>>} \cup {<<[k |-> "host", v |-> v]>> : v \in VarValues}
         \cup {<<[k |-> "count", v |-> "1"], [k |-> "host", v |-> v]>> : v \in VarValues}
VarFields == { <<>>, <<"">>, <<"host">>, <<"count", "host">> }
VarPages ==
  UNION {[1..n -> VarRecords] : n \in 0..MaxVarRows}
VariableResponses ==
  {[NoResponse EXCEPT !.tag = "ok", !.results = TRUE, !.n = Len(rs), !.rows = rs, !.fields = f] :
     rs \in VarPages, f \in VarFields}
  \cup {[NoResponse EXCEPT !.tag = "ok"]} \cup {Undefined} \cup Rejections

\* r[field]
RECURSIVE Lookup(_, _)
Lookup(r, field) ==
  IF r = <<>> THEN Missing
  ELSE IF Head(r).k = field THEN Head(r).v ELSE Lookup(Tail(r), field)

\* res.fields?.[0]?.name, else the first key of the first row
FirstField(fields, rows) ==
  LET named == IF fields # <<>> THEN fields[1] ELSE ""
  IN  IF named # "" THEN named
      ELSE IF rows[1] # <<>> THEN rows[1][1].k ELSE ""

\* MetricValues without the filter of empty values: a faulty variant
RECURSIVE MetricValuesUnfiltered(_, _)
MetricValuesUnfiltered(rows, field) ==
  IF rows = <<>> THEN <<>>
  ELSE LET v == Lookup(Head(rows), field)
       IN  (IF v # Missing THEN <<[text |-> v, value |-> v]>> ELSE <<>>)
           \o MetricValuesUnfiltered(Tail(rows), field)

RECURSIVE MetricValues(_, _)
MetricValues(rows, field) ==
  IF rows = <<>> THEN <<>>
  ELSE LET v == Lookup(Head(rows), field)
       IN  (IF v # Missing /\ v # "" THEN <<[text |-> v, value |-> v]>> ELSE <<>>)
           \o MetricValues(Tail(rows), field)

\* rows.map(...).filter(...).map(...) of metricFindQuery
MetricFindValues(fields, rows) ==
  IF rows = <<>> THEN <<>>
  ELSE LET firstField == FirstField(fields, rows)
       IN  IF firstField = "" THEN <<>> ELSE MetricValues(rows, firstField)

\* The call of metricFindQuery: interpolation and the guardrail gate, both
\* before the try block, then the creation of the search job.  The template
\* is kept as the only target of req, with the bindings the template
\* service holds.
MetricFindQuery(q, b) ==
  /\ pc = "idle"
  /\ entry' = "metricFindQuery"
  /\ req' = [NoRequest EXCEPT !.targets = <<[refId |-> "A", hide |-> FALSE, queryText |-> q]>>,
                              !.scopedVars = b]
  /\ idx' = 1
  /\ LET validation == isQueryDangerous(interpolateSPL(q, b), jsonData)
     IN  IF validation = SyntaxError
         THEN /\ pc' = "thrown"
              /\ calls' = NoCalls
              /\ UNCHANGED <<pending, resp>>
         ELSE IF validation # Missing
         THEN /\ pc' = "returned"
              /\ calls' = NoCalls
              /\ UNCHANGED <<pending, resp>>
         ELSE /\ pc' = "create"
              /\ pending' = CreateCall
              /\ resp' = NoResponse
              /\ calls' = [NoCalls EXCEPT !.create = 1]
  /\ result' = <<>>
  /\ UNCHANGED <<jsonData, cancelled, editor, frames, locals, jobs>>

\* The page of the variable query comes back.
VariableRemoteResponds ==
  /\ entry = "metricFindQuery"
  /\ pending.kind = "results" /\ resp.tag = "none"
  /\ resp' \in VariableResponses
  /\ UNCHANGED <<jsonData, cancelled, editor, entry, req, pc, idx, frames, locals, pending, jobs, calls, result>>

VariablePageFetched ==
  /\ entry = "metricFindQuery" /\ pc = "fetch" /\ resp.tag # "none"
  /\ IF resp.tag \in {"reject", "undefined"} THEN CatchMetricFind
     ELSE /\ result' = MetricFindValues(resp.fields, resp.rows)
          /\ pc' = "returned"
          /\ ResetLocals
          /\ UNCHANGED <<jsonData, cancelled, editor, entry, req, idx, frames, jobs>>

\* ------------------------------------------------------------ specifications
\* one batch query
Next ==
  \/ \E r \in GuardRequests \cup RangeRequests : Query(r)
  \/ ReturnFrames
  \/ SkipHidden
  \/ StartTarget
  \/ RemoteResponds
  \/ JobCreated
  \/ StatusChecked
  \/ SleepDone
  \/ PageFetched

Spec == Init /\ [][Next]_vars

\* The host abandons a batch query that is suspended at an await.  query
\* takes no signal and reads none: no step of it depends on cancelled.
Cancel ==
  /\ entry = "query" /\ pc \in {"create", "poll", "sleep", "fetch"}
  /\ ~cancelled
  /\ cancelled' = TRUE
  /\ UNCHANGED <<jsonData, editor, entry, req, pc, idx, frames, locals, pending, resp,
                 jobs, calls, result>>

\* The continuations of query: each runs once the promise it awaits has
\* settled.  With them, and a remote that answers every call, a batch
\* query goes on until it ends.  The configurations are those that bear
\* on the length of a run: paging, polling, and a deny-list that does not
\* compile.
Continuation ==
  ReturnFrames \/ SkipHidden \/ StartTarget \/ JobCreated \/ StatusChecked \/ SleepDone
    \/ PageFetched
FairConfigs ==
  PageConfigs \cup PollConfigs
  \cup {c \in GuardConfigs : compileBannedRegex(c).kind = "throw" /\ ~c.allowDangerousCommands}
InitFair == jsonData \in FairConfigs /\ Idle
FairSpec == InitFair /\ [][Next]_vars /\ WF_vars(Continuation) /\ WF_vars(RemoteResponds)

\* one batch query that the host may abandon
NextCancel == Next \/ Cancel

SpecCancel == Init /\ [][NextCancel]_vars

VarConfigs == GuardConfigs \cup PollConfigs
VarTemplates == { <<>>, <<"a">>, <<"a", " ", VarRef>> }
InitVar == jsonData \in VarConfigs /\ Idle

\* one variable-list query
NextVar ==
  \/ \E q \in VarTemplates, b \in Bindings : MetricFindQuery(q, b)
  \/ (entry = "metricFindQuery" /\ pending.kind # "results" /\ RemoteResponds)
  \/ VariableRemoteResponds
  \/ JobCreated
  \/ StatusChecked
  \/ SleepDone
  \/ VariablePageFetched

SpecVar == InitVar /\ [][NextVar]_vars

\* The interpolator on its own: templates with no, one and two references
\* to the variable, bound to nothing, to a value or to an array of values.
ValueChars == {"a", "\"", "\\"}
Agent7 == <<"a", "g", "e", "n", "t", "-", "7">>
Values ==
  UNION {[1..n -> ValueChars] : n \in 0..MaxValueLen}
  \cup {Agent7, <<"b">>, <<"a", "\"", "b">>}
ScopedVars ==
  {NullValue} \cup {Single(v) : v \in Values}
  \cup {Array(vs) : vs \in UNION {[1..n -> Values] : n \in 0..MaxArrayLen}}
HostQuoted == <<"h", "o", "s", "t", "=", "\"", VarRef, "*", "\"">>
HostBare == <<"h", "o", "s", "t", "=", VarRef>>
Templates == { <<>>, <<VarRef>>, HostQuoted, HostBare, <<VarRef, " ", VarRef>> }
InitInterp == jsonData = BaseConfig /\ Idle

\* One call interpolateSPL(text, scopedVars): the text returned is kept in
\* result, the template as the only target of req.
Interpolate(text, scopedVars) ==
  /\ pc = "idle"
  /\ entry' = "interpolateSPL"
  /\ req' = [NoRequest EXCEPT
               !.targets = <<[refId |-> "A", hide |-> FALSE, queryText |-> text]>>,
               !.scopedVars = scopedVars]
  /\ result' = interpolateSPL(text, scopedVars)
  /\ pc' = "returned"
  /\ UNCHANGED <<jsonData, cancelled, editor, idx, frames, locals, pending, resp, jobs, calls>>

NextInterp == \E text \in Templates, scopedVars \in ScopedVars : Interpolate(text, scopedVars)

SpecInterp == InitInterp /\ [][NextInterp]_vars

\* The row mapper on its own: a page of one record, each field of it
\* missing, empty or set.
Records ==
  [_time : {Missing, "2024-01-01T00:00:00Z", "not a date"},
   host : {Missing, "", "h1"}, sourceHost : {Missing, "h2"}, hosts : {Missing, "h3"},
   _raw : {Missing, "", "raw1"}, message : {Missing, "msg1"}, _msg : {Missing, "m1"}]
InitRow == jsonData = BaseConfig /\ Idle

\* The body of the loop over the rows of a page, for a page of the one
\* record r: the rows added are kept in result, the page in resp.
MapRecord(r) ==
  /\ pc = "idle"
  /\ entry' = "mapRow"
  /\ resp' = [NoResponse EXCEPT !.tag = "ok", !.results = TRUE, !.n = 1, !.rows = <<r>>]
  /\ result' = [k \in 1..1 |-> MapRow(r)]
  /\ pc' = "returned"
  /\ UNCHANGED <<jsonData, cancelled, editor, req, idx, frames, locals, pending, jobs, calls>>

NextRow == \E r \in Records : MapRecord(r)

SpecRow == InitRow /\ [][NextRow]_vars

\* The guardrail evaluator on its own: every deny-list shape with and
\* without the override, every query of up to MaxQueryLen characters.
GuardDenyLists ==
  DenyLists \cup { << <<" ">>, <<>> >>,
                   << <<" ", "d", " ">>, <<"a", " ", "d">> >>,
                   << <<"d">>, <<"(">> >> }
EvaluatorConfigs ==
  {[BaseConfig EXCEPT !.bannedCommands = b, !.allowDangerousCommands = a] :
     b \in GuardDenyLists, a \in BOOLEAN}
QueryChars == {"a", "d", "D", "_", " ", "\t", "|"}
Queries == UNION {[1..n -> QueryChars] : n \in 0..MaxQueryLen}
InitGuard == jsonData \in EvaluatorConfigs /\ Idle

\* One call isQueryDangerous(q, jsonData): the verdict is kept in result,
\* the query as the only target of req.
Evaluate(q) ==
  /\ pc = "idle"
  /\ entry' = "isQueryDangerous"
  /\ req' = [NoRequest EXCEPT !.targets = <<[refId |-> "A", hide |-> FALSE, queryText |-> q]>>]
  /\ LET validation == isQueryDangerous(q, jsonData)
     IN  IF validation = SyntaxError
         THEN pc' = "thrown" /\ result' = <<>>
         ELSE pc' = "returned" /\ result' = <<validation>>
  /\ UNCHANGED <<jsonData, cancelled, editor, idx, frames, locals, pending, resp, jobs, calls>>

NextGuard == \E q \in Queries : Evaluate(q)

SpecGuard == InitGuard /\ [][NextGuard]_vars

\* ------------------------------------------------------------ query editors
\* QueryEditor (panels) and VariableQueryEditor (variables) on their own: the
\* user types, leaves the field, presses Run or Clear; debounce timers expire;
\* the host renders the editor again with new onChange/query props.
BANNED_COMMANDS ==
  << <<"o","u","t","p","u","t","l","o","o","k","u","p">>,
     <<"s","e","n","d","e","m","a","i","l">>,
     <<"r","e","s","t">>,
     <<"d","e","l","e","t","e">>,
     <<"c","o","l","l","e","c","t">>,
     <<"s","e","n","d","a","l","e","r","t">>,
     <<"r","u","n","s","h","e","l","l","s","c","r","i","p","t">>,
     <<"s","c","r","i","p","t">>,
     <<"m","c","o","l","l","e","c","t">>,
     <<"l","o","a","d","j","o","b">> >>

\* the last alternative, map\s+\[ , between the two \b: "map", blanks, "["
MapBracketAt(t, p) ==
  /\ p + 2 <= Len(t)
  /\ <<lower(t[p]), lower(t[p + 1]), lower(t[p + 2])>> = <<"m", "a", "p">>
  /\ WordBoundary(t, p)
  /\ \E q \in (p + 4)..Len(t) :
       /\ \A k \in (p + 3)..(q - 1) : IsSpace(t[k])
       /\ t[q] = "["
       /\ WordBoundary(t, q + 1)

bannedRegexTest(t) ==
  RegexTest(BANNED_COMMANDS, t) \/ \E p \in 1..Len(t) : MapBracketAt(t, p)

MIN_QUERY_LENGTH == 1

EditorEmptyMsg == "Query is empty."
EditorRiskyMsg ==
  "This query includes a risky Splunk command (e.g., sendemail, outputlookup, rest, delete, collect, script, map[]). It will be blocked."

\* validate(value): the message and the flag the editor shows for a text
validate(value) ==
  LET v == trim(value)
  IN  IF Len(v) < MIN_QUERY_LENGTH
      THEN [validationMsg |-> EditorEmptyMsg, isDangerous |-> FALSE]
      ELSE IF bannedRegexTest(v)
           THEN [validationMsg |-> EditorRiskyMsg, isDangerous |-> TRUE]
           ELSE [validationMsg |-> Missing, isDangerous |-> FALSE]

\* the texts a user types and a saved query holds
EditorTexts ==
  { <<>>, <<" ">>, <<"a">>, <<"d","e","l","e","t","e">>,
    <<"m","a","p"," ","[","a">> }

\* QueryEditor validates the saved text in its constructor.
MountQueryEditor(initial) ==
  [kind |-> "QueryEditor", text |-> initial,
   validationMsg |-> validate(initial).validationMsg,
   isDangerous |-> validate(initial).isDangerous,
   props |-> 0, instance |-> 0, timers |-> <<>>, delivered |-> <<>>, run |-> <<>>,
   cleared |-> FALSE]

\* VariableQueryEditor starts from useState(null) and useState(false).
MountVariableQueryEditor(initial) ==
  [kind |-> "VariableQueryEditor", text |-> initial,
   validationMsg |-> Missing, isDangerous |-> FALSE,
   props |-> 0, instance |-> 0, timers |-> <<>>, delivered |-> <<>>, run |-> <<>>,
   cleared |-> FALSE]

InitEditor ==
  /\ jsonData = BaseConfig
  /\ AtRest
  /\ \E initial \in EditorTexts :
       editor \in {MountQueryEditor(initial), MountVariableQueryEditor(initial)}

Mounted == editor.kind # "none"
IsPanelEditor == editor.kind = "QueryEditor"

\* debounce(fn, 150) called with a value: the instance's timer restarts and
\* keeps the last value; timers is in the order they will expire
Debounced(timers, instance, value) ==
  Append(SelectSeq(timers, LAMBDA t : t.instance # instance),
         [instance |-> instance, value |-> value])

\* flush(): the value the instance holds, if any, is delivered now
Flushed(timers, instance) == SelectSeq(timers, LAMBDA t : t.instance # instance)

EditorFrame ==
  UNCHANGED <<jsonData, entry, req, pc, idx, frames, locals, pending, resp, jobs, calls,
              result, cancelled>>

\* setText (QueryEditor) and handleChange (VariableQueryEditor): the text
\* area reports a new value
setText(value) ==
  /\ Mounted
  /\ editor' = [editor EXCEPT
       !.text = value,
       !.validationMsg = validate(value).validationMsg,
       !.isDangerous = validate(value).isDangerous,
       !.timers = Debounced(editor.timers, editor.instance, value),
       !.cleared = FALSE]
  /\ EditorFrame

\* the earliest debounce timer expires: onChange({...query, queryText: value})
DebounceFires ==
  /\ Mounted
  /\ editor.timers # <<>>
  /\ editor' = [editor EXCEPT
       !.timers = Tail(editor.timers),
       !.delivered = <<Head(editor.timers).value>>]
  /\ EditorFrame

\* runIfSafe: the Run button, and in QueryEditor leaving the text area
runIfSafe ==
  /\ Mounted
  /\ editor' = [editor EXCEPT
       !.run = IF editor.isDangerous \/ editor.validationMsg # Missing
               THEN editor.run
               ELSE <<editor.text>>]
  /\ EditorFrame

handleBlur == IsPanelEditor /\ runIfSafe

\* the Run button is disabled while a message or the flag is set
RunPressed ==
  /\ ~(editor.validationMsg # Missing \/ editor.isDangerous)
  /\ runIfSafe

\* clear: the text becomes empty, the current debounced function is flushed,
\* the variable editor calls onChange once more, and onRunQuery is called
clear ==
  /\ Mounted
  /\ editor' = [editor EXCEPT
       !.text = <<>>,
       !.validationMsg = validate(<<>>).validationMsg,
       !.isDangerous = validate(<<>>).isDangerous,
       !.timers =
         IF IsPanelEditor
         THEN Flushed(Debounced(editor.timers, editor.instance, <<>>), editor.instance)
         ELSE Flushed(editor.timers, editor.instance),
       !.delivered = << <<>> >>,
       !.run = << <<>> >>,
       !.cleared = TRUE]
  /\ EditorFrame

\* The host renders the editor with a new onChange and a new query object.
\* QueryEditor keeps its one debounced function, which reads this.props when
\* it fires; VariableQueryEditor's useMemo makes a new debounced function and
\* leaves the timer of the old one running.
HostRenders ==
  /\ Mounted
  /\ editor.props < MaxRenders
  /\ editor' = [editor EXCEPT
       !.props = editor.props + 1,
       !.instance = IF IsPanelEditor THEN editor.instance ELSE editor.props + 1]
  /\ EditorFrame

NextEditor ==
  \/ \E value \in EditorTexts : setText(value)
  \/ DebounceFires
  \/ handleBlur
  \/ RunPressed
  \/ clear
  \/ HostRenders

SpecEditor == InitEditor /\ [][NextEditor]_vars

\* ------------------------------------------------------------------ properties
Visible(ts) == SelectSeq(ts, LAMBDA t : ~t.hide)
RefIdsOf(fs) == [i \in 1..Len(fs) |-> fs[i].refId]
TableFields == <<"time", "host", "message">>
IsTable(f) == f.fields = TableFields
IsError(f) == f.fields = <<"time", "error">>
IsWarning(f) == f.fields = <<"time", "warning">>
InQuery == entry = "query"
\* query got past the time range cap
ReachedTargets == InQuery /\ idx >= 1
LastFrame(fs) == fs[Len(fs)]

\* C1: once a batch query is past the time range cap, the frames collected
\* are, in input order, one frame for each non-hidden target among those
\* the loop has finished, none for a hidden one; the response, when query
\* returns, is given after the last target, so it holds exactly one frame
\* per non-hidden target of the batch.
C1_OneFramePerVisibleTarget ==
  ReachedTargets =>
    /\ idx <= Len(req.targets) + 1
    /\ RefIdsOf(frames) = RefIdsOf(Visible(SubSeq(req.targets, 1, idx - 1)))
    /\ (pc = "returned" => idx = Len(req.targets) + 1)

\* a returned batch of a hidden target, a failed target and a target with rows
C1_Witness ==
  /\ ReachedTargets /\ pc = "returned"
  /\ \E i \in 1..Len(req.targets) : req.targets[i].hide
  /\ \E k \in 1..Len(frames) : IsTable(frames[k]) /\ Len(frames[k].rows) > 1

PageLen(r) == IF r.tag = "ok" /\ r.results THEN r.n ELSE 0
\* a step of query that pushes a frame
Pushes == InQuery /\ Len(frames') = Len(frames) + 1

FailedCall == resp.tag \in {"reject", "undefined"}
AtFailure ==
  \/ pc \in {"create", "poll", "fetch"} /\ FailedCall
  \/ pc = "create" /\ resp.tag = "ok" /\ resp.sid = 0
  \/ pc = "sleep" /\ calls.status >= Max(1, OrDefault(jsonData.maxPolls, DefaultMaxPolls))
\* what the failure says
FailureDescription ==
  IF pc = "sleep" THEN PollTimeoutMsg
  ELSE IF resp.tag = "reject"
       THEN (IF resp.message = Missing THEN QueryFailedMsg ELSE resp.message)
  ELSE IF pc = "create" THEN CreateFailedMsg
  ELSE TypeErrorMsg
\* nothing of the last target's chain is left
FreshLocals ==
  /\ table = <<>> /\ sid = 0 /\ polls = 0 /\ offset = 0 /\ totalAdded = 0
  /\ pending = NoCall /\ resp = NoResponse /\ calls = NoCalls

\* C3: a failed create, poll or fetch of a target adds exactly one frame,
\* tagged error, of one row that carries the failure description, and
\* moves the loop to the next target; each target starts from the same
\* fresh state, whatever came of the targets before it.
C3_ErrorIsolation ==
  /\ [](InQuery /\ pc = "loop" => FreshLocals)
  /\ [][InQuery /\ AtFailure
          => /\ frames' = Append(frames, LastFrame(frames'))
             /\ IsError(LastFrame(frames'))
             /\ LastFrame(frames').refId = req.targets[idx].refId
             /\ Len(LastFrame(frames').rows) = 1
             /\ LastFrame(frames').rows[1].text = FailureDescription
             /\ pc' = "loop" /\ idx' = idx + 1]_vars

\* a returned batch whose first target failed and whose second has rows
C3_Witness ==
  /\ ReachedTargets /\ pc = "returned" /\ Len(frames) = 2
  /\ IsError(frames[1])
  /\ IsTable(frames[2]) /\ Len(frames[2].rows) > 0

\* C4 as stated: no exception leaves a batch query.  (Violated: the
\* deny-list is compiled outside the try block of the target.)
C4_QueryNeverThrows == InQuery => pc # "thrown"

\* the verdict of the guardrail evaluator on the current target
Verdict == isQueryDangerous(QueryText, jsonData)
AtGate == InQuery /\ pc = "loop" /\ idx <= Len(req.targets) /\ ~req.targets[idx].hide

\* C5: a call is in flight only for a target the evaluator allowed, and
\* the step that meets a blocked target issues no call and adds exactly
\* one frame, tagged warning, of one row that carries the block reason.
C5_BlockedNeverSent ==
  /\ [](InQuery /\ pc \in {"create", "poll", "sleep", "fetch"} => Verdict = Missing)
  /\ [](InQuery /\ pending.kind # "none" => pc \in {"create", "poll", "fetch"})
  /\ [][AtGate /\ Verdict \in {EmptyQueryMsg, RiskyQueryMsg}
          => /\ frames' = Append(frames, LastFrame(frames'))
             /\ IsWarning(LastFrame(frames'))
             /\ LastFrame(frames').refId = req.targets[idx].refId
             /\ Len(LastFrame(frames').rows) = 1
             /\ LastFrame(frames').rows[1].text = Verdict
             /\ pending' = NoCall /\ calls' = NoCalls /\ jobs' = jobs
             /\ pc' = "loop" /\ idx' = idx + 1]_vars

\* a returned batch with a deny-listed target and a target that ran a job
C5_Witness ==
  /\ ReachedTargets /\ pc = "returned" /\ jobs > 0
  /\ \E k \in 1..Len(frames) :
       IsWarning(frames[k]) /\ frames[k].rows[1].text = RiskyQueryMsg

\* C6: with safe mode on and a span above maxRangeSeconds (86400 when
\* unset), query returns at once one frame of one row citing the span in
\* whole seconds and the cap, and issues no call; otherwise it goes on to
\* the targets.
C6_TimeRangeCap ==
  InQuery =>
    LET cap == OrDefault(jsonData.maxRangeSeconds, 86400)
        over == jsonData.safeMode /\ req.rangeMs > 1000 * cap
    IN  IF over
        THEN /\ pc = "returned" /\ idx = 0
             /\ Len(frames) = 1
             /\ frames[1].refId = "guardrails"
             /\ frames[1].fields = <<"time", "message">>
             /\ Len(frames[1].rows) = 1
             /\ frames[1].rows[1].maxRangeSec = cap
             /\ 1000 * (frames[1].rows[1].rangeSec - 1) < req.rangeMs
             /\ req.rangeMs <= 1000 * frames[1].rows[1].rangeSec
             /\ jobs = 0 /\ pending = NoCall /\ calls = NoCalls /\ table = <<>>
        ELSE /\ idx >= 1
             /\ \A k \in 1..Len(frames) : frames[k].refId # "guardrails"

\* 90000 seconds against the default cap, for a batch that has targets
C6_Witness ==
  /\ InQuery /\ pc = "returned" /\ idx = 0
  /\ req.rangeMs = 90000000 /\ jsonData.maxRangeSeconds = <<>>
  /\ Len(req.targets) > 0

\* the step of query that pushes the poll-timeout error
TimesOut ==
  /\ Pushes
  /\ IsError(LastFrame(frames'))
  /\ LastFrame(frames').rows[1].text = PollTimeoutMsg
PollBudget == Max(1, OrDefault(jsonData.maxPolls, 30))

\* C7 as stated: when a target times out, exactly maxPolls (30 when
\* unset) status checks were made for its job.
C7_ExactlyMaxPollsChecks ==
  [][TimesOut => calls.status = OrDefault(jsonData.maxPolls, 30)]_vars

\* C7 amended: the poll budget is max(1, maxPolls).  While every status
\* check says not done, the next check follows each sleep until the
\* budget is used; then, after exactly max(1, maxPolls) checks and no page
\* request, the target fails with the poll-timeout error.
C7_ExactlyClampedMaxPollsChecks ==
  /\ [](InQuery /\ pc \in {"poll", "sleep"} =>
          calls.status >= 1 /\ calls.status <= PollBudget /\ calls.results = 0)
  /\ [][TimesOut => pc = "sleep" /\ calls.status = PollBudget /\ calls.results = 0]_vars
  /\ [][InQuery /\ pc = "sleep"
          => IF calls.status < PollBudget
             THEN pc' = "poll" /\ pending' = StatusCall(sid)
                  /\ calls'.status = calls.status + 1
             ELSE TimesOut]_vars

\* a target timed out after three status checks
C7_Witness ==
  /\ InQuery /\ jsonData.maxPolls = <<3>>
  /\ \E k \in 1..Len(frames) :
       IsError(frames[k]) /\ frames[k].rows[1].text = PollTimeoutMsg

DoneStates == {"DONE", "PAUSED", "FINALIZING"}
ReportsDone(r) == r.entry /\ (r.isDone = "true" \/ r.dispatchState \in DoneStates)

\* C8: a status payload ends the wait, and the first page is requested,
\* exactly when its completion flag is true or its dispatch state is
\* DONE, PAUSED or FINALIZING; on any other payload the controller
\* sleeps, and after the sleep checks again while poll budget remains.
C8_DoneExactlyOnFlagOrState ==
  /\ [][pc = "poll" /\ resp.tag = "ok"
          => IF ReportsDone(resp)
             THEN pc' = "fetch" /\ pending'.kind = "results" /\ pending'.sid = sid
             ELSE pc' = "sleep" /\ pending' = NoCall /\ frames' = frames]_vars
  /\ [][pc = "sleep" /\ calls.status < PollBudget
          => pc' = "poll" /\ pending' = StatusCall(sid)]_vars

\* a job found done at its second status check, after one sleep
C8_Witness == InQuery /\ pc = "fetch" /\ calls.status = 2 /\ calls.results = 1

InMetricFind == entry = "metricFindQuery"

\* C9 as stated: no exception leaves a variable-list query.  (Violated:
\* the deny-list is compiled before the try block.)
C9_MetricFindNeverThrows == InMetricFind => pc # "thrown"

\* the values of field f in the rows, in row order, null and '' left out
FieldValues(rows, f) ==
  LET kept == SelectSeq(rows, LAMBDA r : Lookup(r, f) \notin {Missing, ""})
  IN  [i \in 1..Len(kept) |-> Lookup(kept[i], f)]
RECURSIVE FirstSeen(_, _)
\* vs without the repeats of a value seen before
FirstSeen(vs, seen) ==
  IF vs = <<>> THEN <<>>
  ELSE (IF Head(vs) \in seen THEN <<>> ELSE <<Head(vs)>>)
       \o FirstSeen(Tail(vs), seen \cup {Head(vs)})
Pairs(vs) == [i \in 1..Len(vs) |-> [text |-> vs[i], value |-> vs[i]]]
\* the page of a variable-list query came back with rows and a first field
GotRows ==
  /\ InMetricFind /\ pc = "fetch" /\ resp.tag = "ok" /\ resp.rows # <<>>
  /\ FirstField(resp.fields, resp.rows) # ""

\* C10 as stated: the list returned holds each non-empty value of the
\* first field once, at its first occurrence.
C10_DistinctFirstSeen ==
  [][GotRows =>
       result' = Pairs(FirstSeen(FieldValues(resp.rows, FirstField(resp.fields, resp.rows)), {}))]_vars

\* C10 amended: the list returned holds one pair per row whose first-field
\* value is neither null nor empty, in row order, repeats included; display
\* equals value in every pair.
C10_OnePairPerNonEmptyRow ==
  [][GotRows =>
       /\ result' = Pairs(FieldValues(resp.rows, FirstField(resp.fields, resp.rows)))
       /\ pc' = "returned"]_vars

\* a list returned with the same pair twice
C10_Witness ==
  /\ InMetricFind /\ pc = "returned"
  /\ Len(result) = 2 /\ result[1] = result[2]

\* a call of the guardrail evaluator has ended, by a verdict or an exception
Evaluated == entry = "isQueryDangerous" /\ pc \in {"returned", "thrown"}
EvaluatedQuery == req.targets[1].queryText
OnlyWhitespace(q) == \A k \in 1..Len(q) : q[k] \in {" ", "\t"}

\* C11: an empty or whitespace-only query gets the empty-query verdict,
\* whatever the override and whatever the deny-list (one that does not
\* compile included).
C11_EmptyAlwaysBlocked ==
  Evaluated /\ OnlyWhitespace(EvaluatedQuery) =>
    pc = "returned" /\ result = <<EmptyQueryMsg>>

\* a whitespace-only query under the override and a deny-list that does
\* not compile
C11_Witness ==
  /\ Evaluated /\ EvaluatedQuery = <<" ", "\t">>
  /\ jsonData.allowDangerousCommands
  /\ jsonData.bannedCommands = << <<"d">>, <<"(">> >>
  /\ result = <<EmptyQueryMsg>>

\* the configured fragments: the lines of the deny-list, trimmed, the
\* empty ones left out
Fragments == SelectSeq(MapTrim(jsonData.bannedCommands), NonEmpty)
\* fragment f stands in q as a whole word, in any letter case
WholeWordAt(q, f, p) ==
  /\ p + Len(f) - 1 <= Len(q)
  /\ \A k \in 1..Len(f) : lower(q[p + k - 1]) = lower(f[k])
  /\ (p = 1 \/ q[p - 1] \notin WordChars)
  /\ (p + Len(f) > Len(q) \/ q[p + Len(f)] \notin WordChars)
ContainsFragment(q) ==
  \E i \in 1..Len(Fragments) : \E p \in 1..Len(q) : WholeWordAt(q, Fragments[i], p)

\* C12 as stated: a non-empty query that holds a fragment of the
\* deny-list as a whole word gets the risky-command verdict when the
\* override is not set and is allowed when it is set.  (Violated: a
\* deny-list with a line that does not compile makes the evaluator throw.)
C12_DenyListedBlockedUnlessOverride ==
  Evaluated /\ ~OnlyWhitespace(EvaluatedQuery) /\ ContainsFragment(EvaluatedQuery) =>
    /\ pc = "returned"
    /\ result = <<IF jsonData.allowDangerousCommands THEN Missing ELSE RiskyQueryMsg>>

\* C13 as stated: a query that is not empty after trimming and holds no
\* fragment of the deny-list as a whole word is allowed.  (Violated: a
\* deny-list with a line that does not compile makes the evaluator throw.)
C13_UnlistedAllowed ==
  Evaluated /\ ~OnlyWhitespace(EvaluatedQuery) /\ ~ContainsFragment(EvaluatedQuery) =>
    pc = "returned" /\ result = <<Missing>>

\* a page with records came back to the pagination loop of query
GotPage == InQuery /\ pc = "fetch" /\ resp.tag = "ok" /\ PageLen(resp) > 0
\* an empty page came back
GotEmptyPage == InQuery /\ pc = "fetch" /\ resp.tag = "ok" /\ PageLen(resp) = 0
ConfiguredMaxRows == OrDefault(jsonData.maxRows, 2000)
\* the step ends the pagination: the table, with the rows given, is the
\* target's frame and no call is left in flight
EndsPagination(rows) ==
  /\ frames' = Append(frames, [refId |-> req.targets[idx].refId, fields |-> TableFields,
                               rows |-> rows])
  /\ pending' = NoCall
  /\ pc' = "loop" /\ idx' = idx + 1
InCapExample == InQuery /\ jsonData.pageSize = <<20>> /\ jsonData.maxRows = <<50>>

C15_EmptyPageStops ==
  [][GotEmptyPage => EndsPagination(table) /\ Len(table) = totalAdded]_vars

\* page size 2 under a cap of 3: a full page, then an empty one
C15_Witness ==
  /\ InQuery /\ pc = "returned"
  /\ jsonData.pageSize = <<2>> /\ jsonData.maxRows = <<3>>
  /\ Len(frames) = 1 /\ IsTable(frames[1]) /\ Len(frames[1].rows) = 2

\* C16: a page with fewer records than the page size requested ends the
\* pagination: the table pushed holds the rows collected before and the
\* rows of the short page, and no call is issued for the job after it.
C16_ShortPageStops ==
  [][GotPage /\ PageLen(resp) < pending.count
       => EndsPagination(table \o [k \in 1..PageLen(resp) |-> MapRow(ResultAt(offset + k))])]_vars

\* page size 2 under a cap of 3: a first page of one record
C16_Witness ==
  /\ InQuery /\ pc = "returned"
  /\ jsonData.pageSize = <<2>> /\ jsonData.maxRows = <<3>>
  /\ Len(frames) = 1 /\ IsTable(frames[1]) /\ Len(frames[1].rows) = 1

ClampedPageSize ==
  LET p == OrDefault(jsonData.pageSize, 200)
  IN  IF p < 1 THEN 1 ELSE IF p > 5000 THEN 5000 ELSE p

\* C17: every page request of a batch query asks for pageSize (200 when
\* unset) clamped into 1..5000 records, and the request that follows
\* another one of the same job is at an offset at least one further.
C17_PageSizeClamped ==
  /\ [](InQuery /\ pending.kind = "results" =>
          /\ pending.count = ClampedPageSize
          /\ pending.count >= 1 /\ pending.count <= 5000
          /\ pending.sid = sid /\ pending.offset = offset)
  /\ [][InQuery /\ pending.kind = "results" /\ pending'.kind = "results"
          /\ calls'.results > calls.results
          => pending'.sid = pending.sid /\ pending'.offset >= pending.offset + 1]_vars

\* a second page requested under a page size configured as 0
C17_Witness ==
  /\ InQuery /\ jsonData.pageSize = <<0>>
  /\ pending.kind = "results" /\ pending.count = 1 /\ pending.offset >= 1

\* a create, status or results call of the current target came back failed
RequestFailed ==
  /\ InQuery /\ pc \in {"create", "poll", "fetch"}
  /\ pending.kind \in {"create", "status", "results"}
  /\ resp.tag \in {"reject", "undefined"}

\* C18: the step that follows a failed call of a target issues no call,
\* pushes the target's error frame and moves to the next target; between
\* targets no call is in flight, and the first call issued from there is
\* the job creation of the target the loop is at.
C18_NoRetry ==
  /\ [][RequestFailed
          => /\ pending' = NoCall /\ calls' = NoCalls
             /\ frames' = Append(frames, LastFrame(frames'))
             /\ IsError(LastFrame(frames'))
             /\ LastFrame(frames').refId = req.targets[idx].refId
             /\ pc' = "loop" /\ idx' = idx + 1]_vars
  /\ [](InQuery /\ pc \in {"loop", "returned"} => pending = NoCall /\ calls = NoCalls)
  /\ [][InQuery /\ pc = "loop" /\ pending' # NoCall
          => pending' = CreateCall /\ pc' = "create" /\ idx' = idx
             /\ calls' = [NoCalls EXCEPT !.create = 1]]_vars

\* the first target failed after its job was created; the job creation
\* of the second target is in flight
C18_Witness ==
  /\ InQuery /\ idx = 2 /\ pc = "create" /\ pending = CreateCall
  /\ jobs = 1 /\ calls = [NoCalls EXCEPT !.create = 1]
  /\ Len(frames) = 1 /\ IsError(frames[1])
  /\ frames[1].rows[1].text = "Network Error"

\* the call of query is over: it returned its frames, or an exception
\* left it
Ended == pc \in {"returned", "thrown"}

IssuesCheckOrFetch ==
  calls'.status > calls.status \/ calls'.results > calls.results

\* C20 as stated: once the host has abandoned the batch, no status check
\* and no page fetch is issued for it.  (Violated: query never looks at a
\* cancellation signal.)
C20_NoCallAfterCancel ==
  [][cancelled => ~IssuesCheckOrFetch]_vars

\* the current target has a job under way
Tracking == InQuery /\ pc \in {"poll", "sleep", "fetch"}

\* C21: a target that passed the guardrails has issued exactly one job
\* creation; the handle it tracks is the one its own creation returned,
\* the newest of the batch, and every status or results call carries it;
\* between targets no handle is held and no call is in flight.
C21_JobOwnership ==
  /\ [](InQuery /\ pc \in {"create", "poll", "sleep", "fetch"} => calls.create = 1)
  /\ [](InQuery => calls.create <= 1)
  /\ [][InQuery /\ pc = "create" /\ pc' = "poll"
          => resp.tag = "ok" /\ resp.sid = jobs /\ sid' = resp.sid]_vars
  /\ [](Tracking => sid = jobs /\ sid >= 1 /\ jobs <= idx)
  /\ [](InQuery /\ pending.kind \in {"status", "results"} => Tracking /\ pending.sid = sid)
  /\ [](InQuery /\ pc \in {"loop", "returned"} => sid = 0 /\ pending = NoCall)

\* the second job of a batch is being polled
C21_Witness ==
  /\ InQuery /\ idx = 2 /\ jobs = 2
  /\ pending = [kind |-> "status", sid |-> 2, count |-> 0, offset |-> 0]

\* a call of the interpolator has returned
Interpolated == entry = "interpolateSPL" /\ pc = "returned"
Template == req.targets[1].queryText
Binding == req.scopedVars
Quote == "\""
Backslash == "\\"
\* the text with each of its characters c given as Piece(c)
RECURSIVE Flatten(_)
Flatten(pieces) == IF pieces = <<>> THEN <<>> ELSE Head(pieces) \o Flatten(Tail(pieces))
\* v with a backslash put before each double quote and each backslash
Escaped(v) ==
  Flatten([k \in 1..Len(v) |-> IF v[k] \in {Quote, Backslash} THEN <<Backslash, v[k]>>
                                                             ELSE <<v[k]>>])
InQuotes(v) == <<Quote>> \o Escaped(v) \o <<Quote>>
\* what stands for a reference to the variable, by the kind of its binding
Replacement(b) ==
  IF b.tag = "null" THEN <<>>
  ELSE IF b.tag = "single" THEN Escaped(b.v)
  ELSE IF Len(b.vs) = 1 THEN InQuotes(b.vs[1])
  ELSE <<"(">> \o Flatten([k \in 1..(2 * Len(b.vs) - 1) |->
                            IF k % 2 = 1 THEN InQuotes(b.vs[(k + 1) \div 2])
                            ELSE <<" ", "O", "R", " ">>]) \o <<")">>
Substituted(t, r) ==
  Flatten([k \in 1..Len(t) |-> IF t[k] = "$x" THEN r ELSE <<t[k]>>])

\* C22: each reference to the variable is replaced by nothing for an
\* absent binding, by the escaped value, with no quotes added, for a single
\* value, by the one quoted value for an array of one, and by the
\* parenthesised list of the quoted values joined by " OR ", in their
\* order, for an array of two or more; agent-7 in host="$x*" gives
\* host="agent-7*" and [a, b] in host=$x gives host=("a" OR "b").
C22_FormatterShapes ==
  Interpolated =>
    /\ (Binding.tag = "array" => Len(Binding.vs) >= 1)
          => result = Substituted(Template, Replacement(Binding))
    /\ (Template = HostQuoted /\ Binding = Single(Agent7))
          => result = <<"h", "o", "s", "t", "=", Quote, "a", "g", "e", "n", "t", "-", "7",
                        "*", Quote>>
    /\ (Template = HostBare /\ Binding = Array(<< <<"a">>, <<"b">> >>))
          => result = <<"h", "o", "s", "t", "=", "(", Quote, "a", Quote, " ", "O", "R", " ",
                        Quote, "b", Quote, ")">>

\* an array of one value in host=$x: the quoted value, no parentheses
C22_Witness ==
  /\ Interpolated /\ Template = HostBare /\ Binding = Array(<< <<"b">> >>)
  /\ result = <<"h", "o", "s", "t", "=", Quote, "b", Quote>>

\* the text read back with each backslash taken off and the character
\* after it kept as it is
RECURSIVE Unescaped(_)
Unescaped(out) ==
  IF out = <<>> THEN <<>>
  ELSE IF Head(out) = Backslash /\ Len(out) >= 2
       THEN <<out[2]>> \o Unescaped(SubSeq(out, 3, Len(out)))
       ELSE <<Head(out)>> \o Unescaped(Tail(out))
\* the number of backslashes that stand right before position k
RECURSIVE BackslashesBefore(_, _)
BackslashesBefore(out, k) ==
  IF k > 1 /\ out[k - 1] = Backslash THEN 1 + BackslashesBefore(out, k - 1) ELSE 0
\* the double quotes of the text that no backslash escapes
OpenQuotes(out) ==
  {k \in 1..Len(out) : out[k] = Quote /\ BackslashesBefore(out, k) % 2 = 0}
Specials(v) == {k \in 1..Len(v) : v[k] \in {Quote, Backslash}}

\* C23: the escaped form of a value is the value with one backslash added
\* before each double quote and each backslash and nothing else changed:
\* it reads back as the value, every double quote of it has an odd number
\* of backslashes before it, and the quoted form of the value has no open
\* double quote but its first and its last character.
C23_EscapeKeepsValueInLiteral ==
  Interpolated /\ Template = <<"$x">> =>
    /\ Binding.tag = "single" =>
          /\ Unescaped(result) = Binding.v
          /\ Len(result) = Len(Binding.v) + Cardinality(Specials(Binding.v))
          /\ OpenQuotes(result) = {}
          /\ (Binding.v = <<"a", Quote, "b">> => result = <<"a", Backslash, Quote, "b">>)
    /\ (Binding.tag = "array" /\ Len(Binding.vs) = 1) =>
          /\ OpenQuotes(result) = {1, Len(result)}
          /\ Unescaped(SubSeq(result, 2, Len(result) - 1)) = Binding.vs[1]

\* a value of a backslash and a double quote: each gets its backslash
C23_Witness ==
  /\ Interpolated /\ Template = <<"$x">> /\ Binding = Single(<<Backslash, Quote>>)
  /\ result = <<Backslash, Backslash, Backslash, Quote>>

\* a record was mapped
RowMapped == entry = "mapRow" /\ pc = "returned"
Record == resp.rows[1]
\* the first of the values that is not missing, else the empty string
FirstPresent(values) ==
  IF \A k \in 1..Len(values) : values[k] = "<undefined>" THEN ""
  ELSE values[CHOOSE k \in 1..Len(values) :
                /\ values[k] # "<undefined>"
                /\ \A j \in 1..(k - 1) : values[j] = "<undefined>"]

C25_MessagePreferredOverRaw ==
  RowMapped =>
    IF Record.message # "<undefined>" THEN result[1].message = Record.message
    ELSE Record._raw # "<undefined>" => result[1].message = Record._raw

\* C26: a page is requested only with at least one status check of the
\* job made; the first page request is the step that follows a status
\* check of the same handle that reported done; once a page was
\* requested no status check is made for the target.
C26_ReadOnlyAfterDone ==
  /\ [](InQuery /\ pending.kind = "results" => calls.status >= 1 /\ pending.sid = sid)
  /\ [][InQuery /\ calls.results = 0 /\ calls'.results = 1
          => /\ pc = "poll" /\ pending = [kind |-> "status", sid |-> sid, count |-> 0, offset |-> 0]
             /\ resp.tag = "ok" /\ ReportsDone(resp)
             /\ pending'.sid = sid /\ sid' = sid]_vars
  /\ [][InQuery /\ calls.results >= 1 => calls'.status <= calls.status]_vars

\* maxPolls configured as 0: one status check, then the first page
C26_Witness ==
  /\ InQuery /\ jsonData.maxPolls = <<0>>
  /\ pc = "fetch" /\ calls.status = 1 /\ calls.results = 1

\* the first n records of the result set, mapped
Received(n) == [k \in 1..n |-> MapRow(ResultAt(k))]

\* C27: a page request is at the offset that equals the number of
\* records received so far, 0 for the first; the next request is further
\* by the length of the page that came back; the table holds, at every
\* moment, one row for each record received, in the order of the result
\* set, and so does the table pushed.
C27_OffsetInvariant ==
  /\ [](InQuery /\ pending.kind = "results" =>
          /\ pending.offset = totalAdded /\ offset = totalAdded
          /\ (calls.results = 1 => pending.offset = 0))
  /\ [](InQuery => Len(table) = totalAdded /\ table = Received(totalAdded))
  /\ [][InQuery /\ pending.kind = "results" /\ pending'.kind = "results"
          /\ calls'.results > calls.results
          => /\ pending'.offset = pending.offset + PageLen(resp)
             /\ pending'.offset > pending.offset]_vars
  /\ [][Pushes /\ IsTable(LastFrame(frames'))
          => LastFrame(frames').rows = Received(totalAdded + PageLen(resp))]_vars

\* the third page after pages of three and of two records
C27_Witness ==
  /\ InQuery /\ pending.kind = "results" /\ calls.results = 3
  /\ jsonData.pageSize = <<2>> /\ pending.offset = 5 /\ Len(table) = 5

\* C28: a page fetch that fails after records were collected adds, for
\* the target, the one error frame of one row and nothing of the table;
\* the frames of the targets before are kept as they are, and no target
\* has two frames.
C28_PartialRowsDiscarded ==
  /\ [][InQuery /\ pc = "fetch" /\ resp.tag \in {"reject", "undefined"} /\ totalAdded > 0
          => /\ frames' = Append(frames, LastFrame(frames'))
             /\ IsError(LastFrame(frames'))
             /\ LastFrame(frames').refId = req.targets[idx].refId
             /\ Len(LastFrame(frames').rows) = 1
             /\ table' = <<>>]_vars
  /\ [](InQuery => \A i, j \in 1..Len(frames) : frames[i].refId = frames[j].refId => i = j)

\* the second page of the second target fails; the first target has its table
C28_Witness ==
  /\ InQuery /\ idx = 2 /\ pc = "fetch" /\ resp.tag = "reject"
  /\ totalAdded = 2 /\ Len(table) = 2 /\ calls.results = 2
  /\ Len(frames) = 1 /\ IsTable(frames[1]) /\ Len(frames[1].rows) > 0

\* the last run the editor asked the host for was of a text it accepts
RunText == editor.run[1]
Acceptable(t) == Len(trim(t)) > 0 /\ ~bannedRegexTest(trim(t))

\* C29: in both editors onRunQuery is called only while the editor's text is
\* non-empty after trimming and matches no banned command, whatever the user
\* types, leaves, runs or clears.
C29_RunOnlyAcceptedText == Mounted /\ editor.run # <<>> => Acceptable(RunText)

\* C30: once Clear was pressed and every debounce timer has expired, the last
\* text handed to onChange is the empty text, whatever was typed before and
\* however often the host replaced the props meanwhile.
C30_ClearDeliveredLast ==
  Mounted /\ editor.cleared /\ editor.timers = <<>> => editor.delivered = << <<>> >>

====
